---- MODULE Spec2Model ----
(***************************************************************************)
(* Staged data pipeline of hust_bearing (src/hust_bearing/data/core.py):   *)
(* SegmentSTFTs, TransformDataset, compute_mean_std, compute_min_max and   *)
(* the Pipeline stages p_download .. p_normalize.                          *)
(*                                                                         *)
(* Numbers.  A float is a record [n, d]: the rational n/d in lowest terms  *)
(* when d > 0, and the IEEE specials when d = 0 (n = 1: +inf, n = -1:      *)
(* -inf, n = 0: nan).  Arithmetic on finite values is exact; the square    *)
(* root is rounded up to a multiple of 1/SqrtRes.                          *)
(*                                                                         *)
(* Objects.  Datasets, transforms and loaders are immutable once built, so *)
(* a reference to one is modelled by its value: a record with a "kind".    *)
(***************************************************************************)
EXTENDS Integers, Sequences, FiniteSets, TLC

\* ----------------------------------------------------------------------
\* Bounds of the model
\* ----------------------------------------------------------------------
MaxLayers == 2      \* calls of normalizing stages that wrap a partition
MaxReruns == 1      \* re-runs of an already completed set-up stage
SqrtRes == 2        \* resolution of the rounded square root

\* ----------------------------------------------------------------------
\* Float arithmetic
\* ----------------------------------------------------------------------
Max2(a, b) == IF a > b THEN a ELSE b
Min2(a, b) == IF a < b THEN a ELSE b
Abs(x) == IF x < 0 THEN -x ELSE x
Sgn(x) == IF x < 0 THEN -1 ELSE IF x > 0 THEN 1 ELSE 0

RECURSIVE Gcd(_, _)
Gcd(a, b) == IF b = 0 THEN a ELSE Gcd(b, a % b)

\* n/d for any integers n, d (d = 0 gives a special)
Make(n, d) ==
    IF d = 0 THEN [n |-> Sgn(n), d |-> 0]
    ELSE LET g == Gcd(Abs(n), Abs(d))
         IN  [n |-> (Sgn(d) * n) \div g, d |-> Abs(d) \div g]

FInt(k) == [n |-> k, d |-> 1]
Zero == FInt(0)
NaN == [n |-> 0, d |-> 0]
PosInf == [n |-> 1, d |-> 0]
NegInf == [n |-> -1, d |-> 0]
IsNaN(x) == x.d = 0 /\ x.n = 0
IsInf(x) == x.d = 0 /\ x.n # 0

FNeg(x) == [n |-> -x.n, d |-> x.d]

FAdd(a, b) ==
    IF IsNaN(a) \/ IsNaN(b) THEN NaN
    ELSE IF IsInf(a) /\ IsInf(b) THEN (IF a.n = b.n THEN a ELSE NaN)
    ELSE IF IsInf(a) THEN a
    ELSE IF IsInf(b) THEN b
    ELSE LET g == Gcd(a.d, b.d)
         IN  Make(a.n * (b.d \div g) + b.n * (a.d \div g), (a.d \div g) * b.d)

FSub(a, b) == FAdd(a, FNeg(b))

FMul(a, b) ==
    IF IsNaN(a) \/ IsNaN(b) THEN NaN
    ELSE IF a.d = 0 \/ b.d = 0 THEN Make(Sgn(a.n) * Sgn(b.n), 0)
    ELSE LET g == Gcd(Abs(a.n), b.d)
             h == Gcd(Abs(b.n), a.d)
         IN  Make((a.n \div g) * (b.n \div h), (a.d \div h) * (b.d \div g))

\* 1/b; 1/0 is +inf as in tensor division
Recip(b) ==
    IF IsNaN(b) THEN NaN
    ELSE IF IsInf(b) THEN Zero
    ELSE IF b.n = 0 THEN PosInf
    ELSE Make(Sgn(b.n) * b.d, Abs(b.n))

FDiv(a, b) == FMul(a, Recip(b))

\* a < b; every comparison with nan is false
FLt(a, b) ==
    IF IsNaN(a) \/ IsNaN(b) THEN FALSE
    ELSE IF IsInf(a) /\ IsInf(b) THEN a.n < b.n
    ELSE a.n * b.d < b.n * a.d

FLe(a, b) == ~IsNaN(a) /\ ~IsNaN(b) /\ ~FLt(b, a)

\* Python's min(a, b) and max(a, b): the first argument unless the second
\* compares smaller (larger)
PyMin(a, b) == IF FLt(b, a) THEN b ELSE a
PyMax(a, b) == IF FLt(a, b) THEN b ELSE a

\* floor of the square root of m >= 0, by bisection of lo .. hi
RECURSIVE ISqrtIn(_, _, _)
ISqrtIn(m, lo, hi) ==
    IF lo >= hi THEN lo
    ELSE LET mid == (lo + hi + 1) \div 2
         IN  IF mid * mid <= m THEN ISqrtIn(m, mid, hi) ELSE ISqrtIn(m, lo, mid - 1)
ISqrt(m) == ISqrtIn(m, 0, Min2(m, 46340))

\* x ** 0.5 for x >= 0, rounded up to a multiple of 1/SqrtRes (so that,
\* as in floating point, only 0 has the root 0)
FSqrt(x) ==
    IF IsNaN(x) THEN NaN
    ELSE IF IsInf(x) THEN x
    ELSE LET scaled == x.n * SqrtRes * SqrtRes
             k == ISqrt(scaled \div x.d)
         IN  Make(IF k * k * x.d = scaled THEN k ELSE k + 1, SqrtRes)

\* ----------------------------------------------------------------------
\* Source adapter: the files a pipeline subclass finds under a data
\* directory, their labels and their raw signals
\* ----------------------------------------------------------------------
None == "None"

Dirs == {"cwru", "broken"}

list_data_files(data_dir) ==
    IF data_dir = "cwru" THEN <<"n.mat", "b.mat", "b2.mat">>
    ELSE <<"n.mat", "corrupt.mat">>

read_label(data_file) == IF data_file = "n.mat" THEN "N" ELSE "B"

\* np.ndarray of the file, or the adapter's I/O error
load_signal(data_file) ==
    CASE data_file = "n.mat" -> [raised |-> None, signal |-> <<1, 3, 0, 2, -1>>]
      [] data_file = "b.mat" -> [raised |-> None, signal |-> <<4, 4>>]
      [] data_file = "b2.mat" -> [raised |-> None, signal |-> <<5>>]
      [] OTHER -> [raised |-> "OSError", signal |-> <<>>]

\* ----------------------------------------------------------------------
\* Python sequences (0-based indices over the 1-based TLA+ sequence)
\* ----------------------------------------------------------------------
\* seq[start:stop]
PySlice(seq, start, stop) ==
    LET L == Len(seq)
        lo == IF start < 0 THEN Max2(start + L, 0) ELSE Min2(start, L)
        hi == IF stop < 0 THEN Max2(stop + L, 0) ELSE Min2(stop, L)
    IN  IF lo >= hi THEN <<>> ELSE SubSeq(seq, lo + 1, hi)

\* ----------------------------------------------------------------------
\* Items: what dataset[idx] gives, or the exception it raises
\* ----------------------------------------------------------------------
Item(image, target) == [raised |-> None, image |-> image, target |-> target]
Raise(exc) == [raised |-> exc, image |-> <<>>, target |-> -1]

\* torch.stft .. abs .. log10 .. unsqueeze .. Resize: one pixel per sample
\* of the segment; torch.stft rejects a segment no longer than its
\* reflect padding win_length // 2
Spectrogram(segment) == [k \in 1..Len(segment) |-> FInt(segment[k])]
StftRejects(segment, win_length) == Len(segment) <= win_length \div 2

\* ----------------------------------------------------------------------
\* class SegmentSTFTs
\* ----------------------------------------------------------------------
\* faulty variant: a signal shorter than one segment is refused
SegmentSTFTs_refusing_short(data_file, target, seg_length, win_length, hop_length) ==
    LET loaded == load_signal(data_file)
    IN  [raised |-> IF loaded.raised # None THEN loaded.raised
                    ELSE IF Len(loaded.signal) < seg_length THEN "ValueError"
                    ELSE None,
         value |-> [kind |-> "SegmentSTFTs",
                    data_file |-> data_file,
                    target |-> target,
                    seg_length |-> seg_length,
                    win_length |-> win_length,
                    hop_length |-> hop_length,
                    num_segments |-> Len(loaded.signal) \div seg_length]]

SegmentSTFTs(data_file, target, seg_length, win_length, hop_length) ==
    LET loaded == load_signal(data_file)
    IN  [raised |-> loaded.raised,
         value |-> [kind |-> "SegmentSTFTs",
                    data_file |-> data_file,
                    target |-> target,
                    seg_length |-> seg_length,
                    win_length |-> win_length,
                    hop_length |-> hop_length,
                    num_segments |-> Len(loaded.signal) \div seg_length]]

SegmentSTFTs_len(self) == self.num_segments

\* faulty variant: a window sliding by hop_length instead of disjoint segments
SegmentSTFTs_segment_hopping(self, idx) ==
    PySlice(load_signal(self.data_file).signal,
            idx * self.hop_length, idx * self.hop_length + self.seg_length)

SegmentSTFTs_segment(self, idx) ==
    PySlice(load_signal(self.data_file).signal,
            idx * self.seg_length, (idx + 1) * self.seg_length)

SegmentSTFTs_getitem(self, idx) ==
    LET loaded == load_signal(self.data_file)
        segment == SegmentSTFTs_segment(self, idx)
    IN  IF loaded.raised # None THEN Raise(loaded.raised)
        ELSE IF StftRejects(segment, self.win_length) THEN Raise("RuntimeError")
        ELSE Item(Spectrogram(segment), self.target)

\* ----------------------------------------------------------------------
\* Transforms installed by the normalizing stages
\* ----------------------------------------------------------------------
\* torchvision.transforms.Lambda(lambda image: image.clamp(-outlier, outlier))
ClampTransform(outlier) == [kind |-> "Clamp", a |-> FNeg(outlier), b |-> outlier]
\* torchvision.transforms.Normalize(mean, std)
NormalizeTransform(mean, std) == [kind |-> "Normalize", a |-> mean, b |-> std]

\* Tensor.clamp(min, max) on one pixel: min(max(x, lo), hi), where a nan
\* pixel stays nan and a nan limit never wins a comparison
Clamp(x, lo, hi) ==
    IF IsNaN(x) THEN x
    ELSE LET y == IF FLt(x, lo) THEN lo ELSE x
         IN  IF FLt(hi, y) THEN hi ELSE y

\* Normalize.forward refuses a zero std ("std evaluated to zero")
TransformRejects(transform) ==
    transform.kind = "Normalize" /\ transform.b = Zero

ApplyPixel(transform, x) ==
    IF transform.kind = "Clamp" THEN Clamp(x, transform.a, transform.b)
    ELSE FDiv(FSub(x, transform.a), transform.b)

ApplyTransform(transform, image) ==
    [k \in 1..Len(image) |-> ApplyPixel(transform, image[k])]

\* ----------------------------------------------------------------------
\* Datasets: ConcatDataset and Subset of torch.utils.data, TransformDataset
\* ----------------------------------------------------------------------
ConcatDataset(datasets) == [kind |-> "ConcatDataset", datasets |-> datasets]
TorchSubset(dataset, indices) ==
    [kind |-> "Subset", dataset |-> dataset, indices |-> indices]
TransformDataset(dataset, transform) ==
    [kind |-> "TransformDataset", dataset |-> dataset, transform |-> transform]

RECURSIVE ConcatLen(_)
ConcatLen(datasets) ==
    IF datasets = <<>> THEN 0
    ELSE SegmentSTFTs_len(Head(datasets)) + ConcatLen(Tail(datasets))

\* ConcatDataset.__getitem__ for 0 <= idx: the dataset holding idx
RECURSIVE ConcatGet(_, _)
ConcatGet(datasets, idx) ==
    IF datasets = <<>> THEN Raise("IndexError")
    ELSE IF idx < SegmentSTFTs_len(Head(datasets))
         THEN SegmentSTFTs_getitem(Head(datasets), idx)
         ELSE ConcatGet(Tail(datasets), idx - SegmentSTFTs_len(Head(datasets)))

RECURSIVE DatasetLen(_)
TransformDataset_len(self) == DatasetLen(self.dataset)

DatasetLen(ds) ==
    CASE ds.kind = "SegmentSTFTs" -> SegmentSTFTs_len(ds)
      [] ds.kind = "ConcatDataset" -> ConcatLen(ds.datasets)
      [] ds.kind = "Subset" -> Len(ds.indices)
      [] OTHER -> TransformDataset_len(ds)

RECURSIVE GetItem(_, _)
TransformDataset_getitem(self, idx) ==
    LET got == GetItem(self.dataset, idx)
    IN  IF got.raised # None THEN got
        ELSE IF TransformRejects(self.transform) THEN Raise("ValueError")
        ELSE Item(ApplyTransform(self.transform, got.image), got.target)

GetItem(ds, idx) ==
    CASE ds.kind = "SegmentSTFTs" -> SegmentSTFTs_getitem(ds, idx)
      [] ds.kind = "ConcatDataset" ->
            LET n == ConcatLen(ds.datasets)
            IN  IF idx < 0 /\ -idx > n THEN Raise("ValueError")
                ELSE ConcatGet(ds.datasets, IF idx < 0 THEN n + idx ELSE idx)
      [] ds.kind = "Subset" ->
            LET n == Len(ds.indices)
            IN  IF idx >= n \/ idx < -n THEN Raise("IndexError")
                ELSE GetItem(ds.dataset,
                             ds.indices[(IF idx < 0 THEN n + idx ELSE idx) + 1])
      [] OTHER -> TransformDataset_getitem(ds, idx)

\* number of TransformDataset layers around the split subset
RECURSIVE Depth(_)
Depth(ds) == IF ds.kind = "TransformDataset" THEN 1 + Depth(ds.dataset) ELSE 0

\* ----------------------------------------------------------------------
\* torch.utils.data.DataLoader and the samplers behind it
\* ----------------------------------------------------------------------
\* randperm(n) as drawn by random_split and by the shuffling sampler: the
\* model draws 0 .. n-1 in rising or in falling order
RandPerms(n) == {[k \in 1..n |-> k - 1], [k \in 1..n |-> n - k]}

Sequential(n) == [k \in 1..n |-> k - 1]

\* DataLoader(dataset, batch_size, shuffle=..., num_workers=...): the
\* RandomSampler of a shuffling loader refuses an empty dataset
DataLoader(dataset, batch_size, shuffle, num_workers) ==
    [raised |-> IF batch_size <= 0 \/ num_workers < 0
                     \/ (shuffle /\ DatasetLen(dataset) = 0)
                THEN "ValueError: DataLoader" ELSE None,
     value |-> [kind |-> "DataLoader", dataset |-> dataset,
                batch_size |-> batch_size, shuffle |-> shuffle,
                num_workers |-> num_workers]]

\* the index orders one pass over the loader can take
SamplerOrders(loader) ==
    IF loader.shuffle THEN RandPerms(DatasetLen(loader.dataset))
    ELSE {Sequential(DatasetLen(loader.dataset))}

\* One pass over the loader in the given index order: the image batches
\* (each the pixels of up to batch_size images), or the first exception
\* raised by reading an item
RECURSIVE Collate(_, _)
Collate(dataset, idxs) ==
    IF idxs = <<>> THEN <<>>
    ELSE GetItem(dataset, Head(idxs)).image \o Collate(dataset, Tail(idxs))

RECURSIVE Chunks(_, _)
Chunks(order, size) ==
    IF order = <<>> THEN <<>>
    ELSE <<SubSeq(order, 1, Min2(size, Len(order)))>>
            \o Chunks(SubSeq(order, Min2(size, Len(order)) + 1, Len(order)), size)

IterLoader(loader, order) ==
    LET bad == {k \in 1..Len(order) : GetItem(loader.dataset, order[k]).raised # None}
        first == CHOOSE k \in bad : \A j \in bad : k <= j
        chunks == Chunks(order, loader.batch_size)
    IN  IF bad # {}
        THEN [raised |-> GetItem(loader.dataset, order[first]).raised, batches |-> <<>>]
        ELSE [raised |-> None,
              batches |-> [c \in 1..Len(chunks) |-> Collate(loader.dataset, chunks[c])]]

\* ----------------------------------------------------------------------
\* Streaming statistics
\* ----------------------------------------------------------------------
RECURSIVE SumPixels(_)
SumPixels(batch) == IF batch = <<>> THEN Zero ELSE FAdd(Head(batch), SumPixels(Tail(batch)))

RECURSIVE SumSqDev(_, _)
SumSqDev(batch, mean) ==
    IF batch = <<>> THEN Zero
    ELSE FAdd(FMul(FSub(Head(batch), mean), FSub(Head(batch), mean)),
              SumSqDev(Tail(batch), mean))

\* image_batch.min() / .max(): nan if the batch holds a nan
RECURSIVE TensorMin(_)
TensorMin(batch) ==
    IF Len(batch) = 1 THEN Head(batch)
    ELSE LET rest == TensorMin(Tail(batch))
         IN  IF IsNaN(Head(batch)) \/ IsNaN(rest) THEN NaN
             ELSE IF FLt(rest, Head(batch)) THEN rest ELSE Head(batch)

RECURSIVE TensorMax(_)
TensorMax(batch) ==
    IF Len(batch) = 1 THEN Head(batch)
    ELSE LET rest == TensorMax(Tail(batch))
         IN  IF IsNaN(Head(batch)) \/ IsNaN(rest) THEN NaN
             ELSE IF FLt(Head(batch), rest) THEN rest ELSE Head(batch)

\* the loops of compute_mean_std and compute_min_max, batch by batch
RECURSIVE AccSum(_, _)
AccSum(batches, pixel_sum) ==
    IF batches = <<>> THEN pixel_sum
    ELSE AccSum(Tail(batches), FAdd(pixel_sum, SumPixels(Head(batches))))

RECURSIVE AccCount(_, _)
AccCount(batches, num_pixels) ==
    IF batches = <<>> THEN num_pixels
    ELSE AccCount(Tail(batches), num_pixels + Len(Head(batches)))

RECURSIVE AccSsd(_, _, _)
AccSsd(batches, pixel_mean, pixel_ssd) ==
    IF batches = <<>> THEN pixel_ssd
    ELSE AccSsd(Tail(batches), pixel_mean,
                FAdd(pixel_ssd, SumSqDev(Head(batches), pixel_mean)))

RECURSIVE AccMin(_, _)
AccMin(batches, pixel_min) ==
    IF batches = <<>> THEN pixel_min
    ELSE AccMin(Tail(batches), PyMin(pixel_min, TensorMin(Head(batches))))

RECURSIVE AccMax(_, _)
AccMax(batches, pixel_max) ==
    IF batches = <<>> THEN pixel_max
    ELSE AccMax(Tail(batches), PyMax(pixel_max, TensorMax(Head(batches))))

\* faulty variant: the count grows by one per batch instead of by numel()
compute_mean_std_counting_batches(pass1, pass2) ==
    LET pixel_sum == AccSum(pass1.batches, Zero)
        num_pixels == Len(pass1.batches)
        pixel_mean == FDiv(pixel_sum, FInt(num_pixels))
        pixel_ssd == AccSsd(pass2.batches, pixel_mean, Zero)
    IN  IF num_pixels = 0
        THEN [raised |-> "ZeroDivisionError", mean |-> NaN, std |-> NaN]
        ELSE [raised |-> None, mean |-> pixel_mean,
              std |-> FSqrt(FDiv(pixel_ssd, FInt(num_pixels)))]

\* compute_mean_std(data_loader); pass1 and pass2 are the two iterations
\* of the loader
compute_mean_std(pass1, pass2) ==
    LET pixel_sum == AccSum(pass1.batches, Zero)
        num_pixels == AccCount(pass1.batches, 0)
        pixel_mean == FDiv(pixel_sum, FInt(num_pixels))
        pixel_ssd == AccSsd(pass2.batches, pixel_mean, Zero)
    IN  IF pass1.raised # None THEN [raised |-> pass1.raised, mean |-> NaN, std |-> NaN]
        ELSE IF num_pixels = 0
             THEN [raised |-> "ZeroDivisionError", mean |-> NaN, std |-> NaN]
        ELSE IF pass2.raised # None
             THEN [raised |-> pass2.raised, mean |-> NaN, std |-> NaN]
        ELSE [raised |-> None, mean |-> pixel_mean,
              std |-> FSqrt(FDiv(pixel_ssd, FInt(num_pixels)))]

\* faulty variant: each batch overwrites the running values
compute_min_max_overwriting(pass1) ==
    IF pass1.batches = <<>> THEN [raised |-> None, min |-> PosInf, max |-> NegInf]
    ELSE [raised |-> None,
          min |-> TensorMin(pass1.batches[Len(pass1.batches)]),
          max |-> TensorMax(pass1.batches[Len(pass1.batches)])]

\* compute_min_max(data_loader); pass1 is its one iteration of the loader
compute_min_max(pass1) ==
    IF pass1.raised # None THEN [raised |-> pass1.raised, min |-> NaN, max |-> NaN]
    ELSE [raised |-> None,
          min |-> AccMin(pass1.batches, PosInf),
          max |-> AccMax(pass1.batches, NegInf)]

\* ----------------------------------------------------------------------
\* class Pipeline: a stage takes the pipeline object p and gives
\* [self |-> the object as the stage leaves it, raised |-> its exception]
\* ----------------------------------------------------------------------
SubsetSet == {"train", "valid", "test"}
NoInt == -1                       \* a None batch_size / num_workers
NoDataset == [kind |-> "None"]    \* a None dataset
EmptyDict == [k \in {} |-> NoDataset]
DictSet(dict, key, value) ==
    [k \in (DOMAIN dict) \cup {key} |-> IF k = key THEN value ELSE dict[k]]

Pipeline_init ==
    [data_dir |-> None, batch_size |-> NoInt, num_workers |-> NoInt,
     dataset |-> NoDataset, num_classes |-> 0,
     subsets |-> EmptyDict, data_loaders |-> EmptyDict]

Return(p) == [self |-> p, raised |-> None]
Raised(p, exc) == [self |-> p, raised |-> exc]

ErrNotDownloaded == "ValueError: Data isn't downloaded."
ErrNotBuilt == "ValueError: Dataset isn't built."
ErrNotSplit == "ValueError: Dataset isn't built or split."
ErrNoLoaders == "ValueError: Data loaders aren't built."

p_download(p, data_dir) == Return([p EXCEPT !.data_dir = data_dir])

\* LabelEncoder: the position of the label among the sorted distinct labels
LabelSet(data_files) == {read_label(data_files[k]) : k \in 1..Len(data_files)}
LabelRank(label) == IF label = "B" THEN 0 ELSE 1

\* faulty variant: classes numbered from one
Encode_from_one(labels, label) ==
    1 + Cardinality({l \in labels : LabelRank(l) < LabelRank(label)})

Encode(labels, label) ==
    Cardinality({l \in labels : LabelRank(l) < LabelRank(label)})

\* faulty variant: builds from a default directory when nothing was downloaded
p_build_dataset_default_dir(p, seg_length, win_length, hop_length) ==
    LET data_files == list_data_files(IF p.data_dir = None THEN "cwru" ELSE p.data_dir)
        labels == LabelSet(data_files)
        p1 == [p EXCEPT !.num_classes = Cardinality(labels)]
        built == [k \in 1..Len(data_files) |->
                    SegmentSTFTs(data_files[k], Encode(labels, read_label(data_files[k])),
                                 seg_length, win_length, hop_length)]
        bad == {k \in 1..Len(data_files) : built[k].raised # None}
        first == CHOOSE k \in bad : \A j \in bad : k <= j
    IN  IF bad # {} THEN Raised(p1, built[first].raised)
        ELSE Return([p1 EXCEPT !.dataset =
                        ConcatDataset([k \in 1..Len(data_files) |-> built[k].value])])

p_build_dataset(p, seg_length, win_length, hop_length) ==
    IF p.data_dir = None THEN Raised(p, ErrNotDownloaded)
    ELSE
    LET data_files == list_data_files(p.data_dir)
        labels == LabelSet(data_files)
        p1 == [p EXCEPT !.num_classes = Cardinality(labels)]
        built == [k \in 1..Len(data_files) |->
                    SegmentSTFTs(data_files[k], Encode(labels, read_label(data_files[k])),
                                 seg_length, win_length, hop_length)]
        bad == {k \in 1..Len(data_files) : built[k].raised # None}
        first == CHOOSE k \in bad : \A j \in bad : k <= j
    IN  IF bad # {} THEN Raised(p1, built[first].raised)
        ELSE IF data_files = <<>> THEN Raised(p1, "AssertionError")
        ELSE Return([p1 EXCEPT !.dataset =
                        ConcatDataset([k \in 1..Len(data_files) |-> built[k].value])])

\* random_split(dataset, fractions): fractions in tenths; floor(n * f) items
\* each, the remainder handed out one by one from the first partition on
SplitLengths(n, fractions) ==
    LET floors == [i \in 1..3 |-> (n * fractions[i]) \div 10]
        remainder == n - (floors[1] + floors[2] + floors[3])
    IN  [i \in 1..3 |-> floors[i] + (remainder + 3 - i) \div 3]

random_split(dataset, fractions, perm) ==
    LET n == DatasetLen(dataset)
        lengths == SplitLengths(n, fractions)
        offset == [i \in 1..3 |-> IF i = 1 THEN 0
                                  ELSE IF i = 2 THEN lengths[1]
                                  ELSE lengths[1] + lengths[2]]
    IN  [raised |-> IF fractions[1] + fractions[2] + fractions[3] = 10 THEN None
                    ELSE "ValueError: Sum of input lengths",
         value |-> [i \in 1..3 |->
                      TorchSubset(dataset, SubSeq(perm, offset[i] + 1, offset[i] + lengths[i]))]]

\* faulty variant: no check that the dataset is built; len(None) fails
p_split_dataset_unchecked(p, fractions, perm) ==
    IF p.dataset = NoDataset THEN Raised(p, "TypeError")
    ELSE
    LET split == random_split(p.dataset, fractions, perm)
    IN  IF split.raised # None THEN Raised(p, split.raised)
        ELSE Return([p EXCEPT !.subsets =
                        [k \in SubsetSet |->
                            CASE k = "train" -> split.value[1]
                              [] k = "valid" -> split.value[2]
                              [] OTHER -> split.value[3]]])

p_split_dataset(p, fractions, perm) ==
    IF p.dataset = NoDataset THEN Raised(p, ErrNotBuilt)
    ELSE
    LET split == random_split(p.dataset, fractions, perm)
    IN  IF split.raised # None THEN Raised(p, split.raised)
        ELSE Return([p EXCEPT !.subsets =
                        [k \in SubsetSet |->
                            CASE k = "train" -> split.value[1]
                              [] k = "valid" -> split.value[2]
                              [] OTHER -> split.value[3]]])

\* faulty variant: every loader shuffles
build_data_loader_shuffling_all(p, subset) ==
    IF p.batch_size = NoInt \/ p.num_workers = NoInt THEN Raised(p, "ValueError")
    ELSE
    LET made == DataLoader(p.subsets[subset], p.batch_size, TRUE, p.num_workers)
    IN  IF made.raised # None THEN Raised(p, made.raised)
        ELSE Return([p EXCEPT !.data_loaders = DictSet(@, subset, made.value)])

build_data_loader(p, subset) ==
    IF p.batch_size = NoInt \/ p.num_workers = NoInt THEN Raised(p, "ValueError")
    ELSE
    LET made == DataLoader(p.subsets[subset], p.batch_size,
                           subset = "train", p.num_workers)
    IN  IF made.raised # None THEN Raised(p, made.raised)
        ELSE Return([p EXCEPT !.data_loaders = DictSet(@, subset, made.value)])

\* the next statement of a stage: it does not run after a raising one
then_build_data_loader(r, subset) ==
    IF r.raised # None THEN r ELSE build_data_loader(r.self, subset)

p_build_data_loaders(p, batch_size, num_workers) ==
    IF DOMAIN p.subsets # SubsetSet THEN Raised(p, ErrNotSplit)
    ELSE then_build_data_loader(
            then_build_data_loader(
                build_data_loader([p EXCEPT !.batch_size = batch_size,
                                            !.num_workers = num_workers], "train"),
                "valid"),
            "test")

\* the index order of one pass: the drawn permutation if the loader
\* shuffles, 0 .. n-1 otherwise
PassOrder(loader, perm) ==
    IF loader.shuffle THEN perm ELSE Sequential(DatasetLen(loader.dataset))

\* faulty variant: wraps the subset and keeps the loader it had
truncate_stale_loader(p, subset, n_sigma, perm1, perm2) ==
    LET data_loader == p.data_loaders[subset]
        stats == compute_mean_std(IterLoader(data_loader, PassOrder(data_loader, perm1)),
                                  IterLoader(data_loader, PassOrder(data_loader, perm2)))
        transform == ClampTransform(FMul(stats.std, FInt(n_sigma)))
    IN  IF stats.raised # None THEN Raised(p, stats.raised)
        ELSE Return([p EXCEPT !.subsets =
                        DictSet(@, subset, TransformDataset(p.subsets[subset], transform))])

\* faulty variant: a clamp already on top is replaced, not wrapped again
truncate_replacing(p, subset, n_sigma, perm1, perm2) ==
    LET data_loader == p.data_loaders[subset]
        stats == compute_mean_std(IterLoader(data_loader, PassOrder(data_loader, perm1)),
                                  IterLoader(data_loader, PassOrder(data_loader, perm2)))
        transform == ClampTransform(FMul(stats.std, FInt(n_sigma)))
        top == p.subsets[subset]
        inner == IF top.kind = "TransformDataset" /\ top.transform.kind = "Clamp"
                 THEN top.dataset ELSE top
    IN  IF stats.raised # None THEN Raised(p, stats.raised)
        ELSE build_data_loader(
                [p EXCEPT !.subsets =
                    DictSet(@, subset, TransformDataset(inner, transform))],
                subset)

truncate(p, subset, n_sigma, perm1, perm2) ==
    LET data_loader == p.data_loaders[subset]
        stats == compute_mean_std(IterLoader(data_loader, PassOrder(data_loader, perm1)),
                                  IterLoader(data_loader, PassOrder(data_loader, perm2)))
        outlier == FMul(stats.std, FInt(n_sigma))
        transform == ClampTransform(outlier)
    IN  IF stats.raised # None THEN Raised(p, stats.raised)
        ELSE build_data_loader(
                [p EXCEPT !.subsets =
                    DictSet(@, subset, TransformDataset(p.subsets[subset], transform))],
                subset)

\* faulty variant: the scaler takes the place of the transform on top
min_max_scale_rewrap(p, subset, perm1) ==
    LET data_loader == p.data_loaders[subset]
        stats == compute_min_max(IterLoader(data_loader, PassOrder(data_loader, perm1)))
        scaler == NormalizeTransform(FDiv(FAdd(stats.max, stats.min), FInt(2)),
                                     FDiv(FSub(stats.max, stats.min), FInt(2)))
        top == p.subsets[subset]
        inner == IF top.kind = "TransformDataset" THEN top.dataset ELSE top
    IN  IF stats.raised # None THEN Raised(p, stats.raised)
        ELSE build_data_loader(
                [p EXCEPT !.subsets =
                    DictSet(@, subset, TransformDataset(inner, scaler))],
                subset)

min_max_scale(p, subset, perm1) ==
    LET data_loader == p.data_loaders[subset]
        stats == compute_min_max(IterLoader(data_loader, PassOrder(data_loader, perm1)))
        loc == FDiv(FAdd(stats.max, stats.min), FInt(2))
        scale == FDiv(FSub(stats.max, stats.min), FInt(2))
        scaler == NormalizeTransform(loc, scale)
    IN  IF stats.raised # None THEN Raised(p, stats.raised)
        ELSE build_data_loader(
                [p EXCEPT !.subsets =
                    DictSet(@, subset, TransformDataset(p.subsets[subset], scaler))],
                subset)

\* faulty variant: every partition is normalized with the training statistics
normalize_train_statistics(p, subset, perm1, perm2) ==
    LET data_loader == p.data_loaders["train"]
        stats == compute_mean_std(IterLoader(data_loader, PassOrder(data_loader, perm1)),
                                  IterLoader(data_loader, PassOrder(data_loader, perm2)))
        normalizer == NormalizeTransform(stats.mean, stats.std)
    IN  IF stats.raised # None THEN Raised(p, stats.raised)
        ELSE build_data_loader(
                [p EXCEPT !.subsets =
                    DictSet(@, subset, TransformDataset(p.subsets[subset], normalizer))],
                subset)

\* faulty variant: the last item of the subset is left out of the wrapper
normalize_dropping(p, subset, perm1, perm2) ==
    LET data_loader == p.data_loaders[subset]
        stats == compute_mean_std(IterLoader(data_loader, PassOrder(data_loader, perm1)),
                                  IterLoader(data_loader, PassOrder(data_loader, perm2)))
        normalizer == NormalizeTransform(stats.mean, stats.std)
        kept == TorchSubset(p.subsets[subset],
                            Sequential(Max2(DatasetLen(p.subsets[subset]) - 1, 0)))
    IN  IF stats.raised # None THEN Raised(p, stats.raised)
        ELSE build_data_loader(
                [p EXCEPT !.subsets =
                    DictSet(@, subset, TransformDataset(kept, normalizer))],
                subset)

normalize(p, subset, perm1, perm2) ==
    LET data_loader == p.data_loaders[subset]
        stats == compute_mean_std(IterLoader(data_loader, PassOrder(data_loader, perm1)),
                                  IterLoader(data_loader, PassOrder(data_loader, perm2)))
        normalizer == NormalizeTransform(stats.mean, stats.std)
    IN  IF stats.raised # None THEN Raised(p, stats.raised)
        ELSE build_data_loader(
                [p EXCEPT !.subsets =
                    DictSet(@, subset, TransformDataset(p.subsets[subset], normalizer))],
                subset)

then_truncate(r, subset, n_sigma, perm1, perm2) ==
    IF r.raised # None THEN r ELSE truncate(r.self, subset, n_sigma, perm1, perm2)

p_truncate(p, n_sigma, perm1, perm2) ==
    IF DOMAIN p.data_loaders # SubsetSet THEN Raised(p, ErrNoLoaders)
    ELSE then_truncate(
            then_truncate(truncate(p, "train", n_sigma, perm1, perm2),
                          "valid", n_sigma, perm1, perm2),
            "test", n_sigma, perm1, perm2)

then_min_max_scale(r, subset, perm1) ==
    IF r.raised # None THEN r ELSE min_max_scale(r.self, subset, perm1)

p_min_max_scale(p, perm1) ==
    IF DOMAIN p.data_loaders # SubsetSet THEN Raised(p, ErrNoLoaders)
    ELSE then_min_max_scale(
            then_min_max_scale(min_max_scale(p, "train", perm1), "valid", perm1),
            "test", perm1)

then_normalize(r, subset, perm1, perm2) ==
    IF r.raised # None THEN r ELSE normalize(r.self, subset, perm1, perm2)

p_normalize(p, perm1, perm2) ==
    IF DOMAIN p.data_loaders # SubsetSet THEN Raised(p, ErrNoLoaders)
    ELSE then_normalize(
            then_normalize(normalize(p, "train", perm1, perm2), "valid", perm1, perm2),
            "test", perm1, perm2)

\* ----------------------------------------------------------------------
\* The state machine: one pipeline object driven by stage calls in any
\* order
\* ----------------------------------------------------------------------
VARIABLES
    data_dir, batch_size, num_workers, dataset, num_classes, subsets,
    data_loaders,   \* the fields of the Pipeline object
    outcome,        \* the last stage called, its exception, and its argument
                    \* if it succeeded
    completed,      \* history: the stages in order of first success
    installed,      \* history: per partition, the transforms wrapped
                    \* around it since it was split, oldest first
    reruns,         \* calls of set-up stages that had already completed
    wraps,          \* calls of normalizing stages that wrapped a partition
    stat,           \* a call of a statistics function on its own: the pixel
                    \* collection, the batches of each pass and the result
    get             \* loader workers reading one dataset: the dataset object
                    \* and the frame of each worker's __getitem__ call

fields == <<data_dir, batch_size, num_workers, dataset, num_classes, subsets,
            data_loaders>>
vars == <<data_dir, batch_size, num_workers, dataset, num_classes, subsets,
          data_loaders, outcome, completed, installed, reruns, wraps, stat, get>>

\* the pipeline object of the current state
Self ==
    [data_dir |-> data_dir, batch_size |-> batch_size, num_workers |-> num_workers,
     dataset |-> dataset, num_classes |-> num_classes,
     subsets |-> subsets, data_loaders |-> data_loaders]

\* inputs of the stage calls
SegLengths == {2, 4, 8}
BuildParams ==
    {[seg_length |-> sl, win_length |-> (sl + 1) \div 2, hop_length |-> 1] :
        sl \in SegLengths}
Fractions == {<<8, 1, 1>>, <<3, 3, 4>>, <<5, 1, 1>>}
LoaderArgs == {<<2, 2>>}
NSigmas == {2}

Range(seq) == {seq[k] : k \in 1..Len(seq)}

\* no statistics function called on its own
NoStat == [phase |-> "idle", pixels |-> <<>>, pass1 |-> <<>>, pass2 |-> <<>>,
           result |-> [raised |-> None]]

\* the pipeline object as constructed, nothing called yet
Constructed ==
    /\ data_dir = Pipeline_init.data_dir
    /\ batch_size = Pipeline_init.batch_size
    /\ num_workers = Pipeline_init.num_workers
    /\ dataset = Pipeline_init.dataset
    /\ num_classes = Pipeline_init.num_classes
    /\ subsets = Pipeline_init.subsets
    /\ data_loaders = Pipeline_init.data_loaders
    /\ outcome = [stage |-> "__init__", arg |-> 0, raised |-> None]
    /\ completed = <<>>
    /\ installed = [s \in SubsetSet |-> <<>>]
    /\ reruns = 0
    /\ wraps = 0

\* no worker reads a dataset
NoGet == [dataset |-> NoDataset, calls |-> <<>>]

Init == Constructed /\ stat = NoStat /\ get = NoGet

\* the object and the histories after a call of stage that gave r
Record(stage, arg, r) ==
    /\ data_dir' = r.self.data_dir
    /\ batch_size' = r.self.batch_size
    /\ num_workers' = r.self.num_workers
    /\ dataset' = r.self.dataset
    /\ num_classes' = r.self.num_classes
    /\ subsets' = r.self.subsets
    /\ data_loaders' = r.self.data_loaders
    /\ outcome' = [stage |-> stage, arg |-> IF r.raised = None THEN arg ELSE 0,
                   raised |-> r.raised]
    /\ completed' = IF r.raised = None /\ stage \notin Range(completed)
                    THEN Append(completed, stage) ELSE completed
    /\ installed' =
          [s \in SubsetSet |->
              IF s \notin DOMAIN r.self.subsets THEN <<>>
              ELSE IF s \in DOMAIN subsets /\ r.self.subsets[s] = subsets[s]
                   THEN installed[s]
              ELSE IF r.self.subsets[s].kind = "TransformDataset"
                   THEN Append(installed[s], r.self.subsets[s].transform)
              ELSE <<>>]
    /\ UNCHANGED <<stat, get>>

\* a call of stage: its result is computed once and recorded
Called(stage, arg, result) == \E r \in {result} : Record(stage, arg, r)

\* a set-up stage may be called again after it completed, MaxReruns times
SetUp(stage) ==
    /\ stage \in Range(completed) => reruns < MaxReruns
    /\ reruns' = IF stage \in Range(completed) THEN reruns + 1 ELSE reruns
    /\ UNCHANGED wraps

\* a normalizing stage may be called until MaxLayers calls of them have
\* wrapped a partition
MayNormalize == wraps < MaxLayers
Normalizing ==
    /\ wraps' = IF subsets' # subsets THEN wraps + 1 ELSE wraps
    /\ UNCHANGED reruns

TrainOrders ==
    IF "train" \in DOMAIN data_loaders THEN SamplerOrders(data_loaders["train"])
    ELSE {<<>>}

Download ==
    \E dir \in Dirs :
        SetUp("p_download") /\ Called("p_download", 0, p_download(Self, dir))

BuildDataset ==
    \E bp \in BuildParams :
        /\ SetUp("p_build_dataset")
        /\ Called("p_build_dataset", bp.seg_length,
                  p_build_dataset(Self, bp.seg_length, bp.win_length, bp.hop_length))

SplitDataset ==
    \E fractions \in Fractions :
        \E perm \in (IF dataset = NoDataset THEN {<<>>}
                     ELSE RandPerms(DatasetLen(dataset))) :
            /\ SetUp("p_split_dataset")
            /\ Called("p_split_dataset", 0, p_split_dataset(Self, fractions, perm))

BuildDataLoadersFrom(argset) ==
    \E args \in argset :
        /\ SetUp("p_build_data_loaders")
        /\ Called("p_build_data_loaders", args[1],
                  p_build_data_loaders(Self, args[1], args[2]))

BuildDataLoaders == BuildDataLoadersFrom(LoaderArgs)

Truncate ==
    /\ MayNormalize
    /\ \E n_sigma \in NSigmas : \E perm1, perm2 \in TrainOrders :
          /\ Called("p_truncate", n_sigma, p_truncate(Self, n_sigma, perm1, perm2))
          /\ Normalizing

MinMaxScale ==
    /\ MayNormalize
    /\ \E perm1 \in TrainOrders :
          /\ Called("p_min_max_scale", 0, p_min_max_scale(Self, perm1))
          /\ Normalizing

Normalize ==
    /\ MayNormalize
    /\ \E perm1, perm2 \in TrainOrders :
          /\ Called("p_normalize", 0, p_normalize(Self, perm1, perm2))
          /\ Normalizing

Next ==
    \/ Download
    \/ BuildDataset
    \/ SplitDataset
    \/ BuildDataLoaders
    \/ Truncate
    \/ MinMaxScale
    \/ Normalize

Spec == Init /\ [][Next]_vars

\* The same pipeline with p_build_data_loaders called with one or another
\* (batch_size, num_workers)
LoaderArgChoices == {<<2, 2>>, <<1, 0>>}
LoaderNext ==
    \/ Download
    \/ BuildDataset
    \/ SplitDataset
    \/ BuildDataLoadersFrom(LoaderArgChoices)
    \/ Truncate
    \/ MinMaxScale
    \/ Normalize
LoaderSpec == Init /\ [][LoaderNext]_vars

\* ----------------------------------------------------------------------
\* The statistics functions on their own: compute_mean_std and
\* compute_min_max applied to a collection of pixels that a loader hands
\* over in batches
\* ----------------------------------------------------------------------
Collections == {<<1, 2, 3, 4, 5>>, <<4, -2, 4>>, <<0, 0>>, <<3>>}
Pixels(values) == [k \in 1..Len(values) |-> FInt(values[k])]

Reverse(seq) == [k \in 1..Len(seq) |-> seq[Len(seq) + 1 - k]]
Rotate(seq) == Tail(seq) \o <<Head(seq)>>
Orders(seq) == {seq, Reverse(seq), Rotate(seq)}

\* seq from position from + 1 on, cut into batches after the positions in cuts
RECURSIVE SplitAt(_, _, _)
SplitAt(seq, cuts, from) ==
    IF from = Len(seq) THEN <<>>
    ELSE LET ends == {c \in cuts \cup {Len(seq)} : c > from}
             next == CHOOSE c \in ends : \A e \in ends : c <= e
         IN  <<SubSeq(seq, from + 1, next)>> \o SplitAt(seq, cuts, next)

\* the passes a loader can make over the pixels: any of the orders, cut
\* into non-empty batches anywhere
Batchings(pixels) ==
    {SplitAt(order, cuts, 0) :
        order \in Orders(pixels), cuts \in SUBSET (1..(Len(pixels) - 1))}
\* the same with an empty batch before or after
WithEmptyBatch(pixels) ==
    Batchings(pixels)
        \cup {<<<<>>>> \o b : b \in Batchings(pixels)}
        \cup {b \o <<<<>>>> : b \in Batchings(pixels)}

\* an iteration of a loader that raised nothing
Pass(batches) == [raised |-> None, batches |-> batches]

Collected ==
    {[phase |-> "collected", pixels |-> Pixels(values), pass1 |-> <<>>,
      pass2 |-> <<>>, result |-> [raised |-> None]] : values \in Collections}

ComputeMeanStd ==
    /\ stat.phase = "collected"
    /\ \E b1, b2 \in WithEmptyBatch(stat.pixels) :
          stat' = [phase |-> "compute_mean_std", pixels |-> stat.pixels,
                   pass1 |-> b1, pass2 |-> b2,
                   result |-> compute_mean_std(Pass(b1), Pass(b2))]
    /\ UNCHANGED <<fields, outcome, completed, installed, reruns, wraps, get>>

ComputeMinMax ==
    /\ stat.phase = "collected"
    /\ \E b1 \in Batchings(stat.pixels) :
          stat' = [phase |-> "compute_min_max", pixels |-> stat.pixels,
                   pass1 |-> b1, pass2 |-> <<>>,
                   result |-> compute_min_max(Pass(b1))]
    /\ UNCHANGED <<fields, outcome, completed, installed, reruns, wraps, get>>

StatInit == Constructed /\ stat \in Collected /\ get = NoGet
StatNext == ComputeMeanStd \/ ComputeMinMax
StatSpec == StatInit /\ [][StatNext]_vars

\* ----------------------------------------------------------------------
\* Vocabulary of the properties
\* ----------------------------------------------------------------------
NormalizingStages == {"p_truncate", "p_min_max_scale", "p_normalize"}
SetUpOrder == <<"p_download", "p_build_dataset", "p_split_dataset",
                "p_build_data_loaders">>

\* the step is a call of stage
Calls(stage) == outcome'.stage = stage /\ vars' # vars
\* the step is a call of a normalizing stage that returned
Normalized == outcome'.stage \in NormalizingStages /\ outcome'.raised = None
                /\ vars' # vars
\* the step raised exc and ran nothing: no field of the object changed
Rejected(exc) == outcome'.raised = exc /\ fields' = fields

\* ----------------------------------------------------------------------
\* C1: a stage called while its prerequisite state is unset raises its
\* sequencing error instead of running: p_build_dataset without data_dir,
\* p_split_dataset without dataset, p_build_data_loaders unless the subsets
\* are exactly train, valid and test, and the three normalizing stages
\* unless the data loaders are exactly train, valid and test -- at any
\* point of any sequence of stage calls.
\* ----------------------------------------------------------------------
C1_SequencingErrors ==
    [][/\ (Calls("p_build_dataset") /\ data_dir = None)
            => Rejected(ErrNotDownloaded)
       /\ (Calls("p_split_dataset") /\ dataset = NoDataset)
            => Rejected(ErrNotBuilt)
       /\ (Calls("p_build_data_loaders") /\ DOMAIN subsets # SubsetSet)
            => Rejected(ErrNotSplit)
       /\ \A stage \in NormalizingStages :
            (Calls(stage) /\ DOMAIN data_loaders # SubsetSet)
                => Rejected(ErrNoLoaders)]_vars

\* a normalizing stage was refused although the dataset is built and split
C1_Witness ==
    /\ outcome.stage = "p_truncate"
    /\ outcome.raised = ErrNoLoaders
    /\ DOMAIN subsets = SubsetSet
    /\ DOMAIN data_loaders = {}

\* ----------------------------------------------------------------------
\* C2: a stage that fails leaves every field of the pipeline (data_dir,
\* dataset, num_classes, subsets, data_loaders, batch_size, num_workers)
\* as it was before the call.
\* ----------------------------------------------------------------------
C2_FailureLeavesStateUnchanged ==
    [][outcome'.raised # None => fields' = fields]_vars

\* ----------------------------------------------------------------------
\* C3: a normalizing stage completes only after p_download,
\* p_build_dataset, p_split_dataset and p_build_data_loaders have each
\* completed, their first completions in exactly that order.
\* ----------------------------------------------------------------------
C3_StagesInOrder ==
    (outcome.stage \in NormalizingStages /\ outcome.raised = None)
        => (Len(completed) >= 5 /\ SubSeq(completed, 1, 4) = SetUpOrder)

\* a normalizing stage completed in a run that repeated a set-up stage
C3_Witness ==
    /\ outcome.stage \in NormalizingStages
    /\ outcome.raised = None
    /\ reruns > 0

\* ----------------------------------------------------------------------
\* C4: after each successful normalizing stage the stored loader of every
\* partition has been rebuilt over the wrapped subset the stage produced
\* for that partition.
\* ----------------------------------------------------------------------
C4_LoadersRebuilt ==
    [][Normalized =>
        \A s \in SubsetSet :
            /\ subsets'[s].kind = "TransformDataset"
            /\ subsets'[s].dataset = subsets[s]
            /\ data_loaders'[s].dataset = subsets'[s]
            /\ data_loaders'[s].dataset # subsets[s]]_vars

C4_Witness ==
    /\ outcome.stage = "p_min_max_scale"
    /\ outcome.raised = None
    /\ \A s \in SubsetSet : data_loaders[s].dataset = subsets[s]
    /\ Depth(subsets["train"]) = 2

\* ----------------------------------------------------------------------
\* Reading a partition and recomputing what a stage computes
\* ----------------------------------------------------------------------
Indices(ds) == 0..(DatasetLen(ds) - 1)

\* the split subset under the wrapper layers
RECURSIVE Root(_)
Root(ds) == IF ds.kind = "TransformDataset" THEN Root(ds.dataset) ELSE ds

\* transforms applied to an item one after the other, first to last
RECURSIVE ApplyAll(_, _)
ApplyAll(transforms, item) ==
    IF transforms = <<>> \/ item.raised # None THEN item
    ELSE ApplyAll(Tail(transforms),
                  IF TransformRejects(Head(transforms)) THEN Raise("ValueError")
                  ELSE Item(ApplyTransform(Head(transforms), item.image), item.target))

\* one pass over the loader in index order
InOrder(loader) == IterLoader(loader, Sequential(DatasetLen(loader.dataset)))

\* the transform a normalizing stage derives from the data a loader yields
StatsTransform(stage, arg, loader) ==
    LET ms == compute_mean_std(InOrder(loader), InOrder(loader))
        mm == compute_min_max(InOrder(loader))
    IN  CASE stage = "p_truncate" -> ClampTransform(FMul(ms.std, FInt(arg)))
          [] stage = "p_normalize" -> NormalizeTransform(ms.mean, ms.std)
          [] OTHER -> NormalizeTransform(FDiv(FAdd(mm.max, mm.min), FInt(2)),
                                         FDiv(FSub(mm.max, mm.min), FInt(2)))

\* the stage with its sampler orders fixed to index order
RunStage(stage, arg, p) ==
    LET order == Sequential(DatasetLen(p.data_loaders["train"].dataset))
    IN  CASE stage = "p_truncate" -> p_truncate(p, arg, order, order)
          [] stage = "p_normalize" -> p_normalize(p, order, order)
          [] OTHER -> p_min_max_scale(p, order)

\* ----------------------------------------------------------------------
\* C5: after a successful p_truncate(n_sigma) every pixel read from each
\* partition lies within [-n_sigma*std, +n_sigma*std], std being the
\* standard deviation over that partition's loader as it was before the
\* truncation.
\* ----------------------------------------------------------------------
C5_TruncatedWithinSigma ==
    [][(Calls("p_truncate") /\ outcome'.raised = None) =>
        \A s \in SubsetSet : \A i \in Indices(subsets'[s]) :
            LET item == GetItem(subsets'[s], i)
                std == compute_mean_std(InOrder(data_loaders[s]),
                                        InOrder(data_loaders[s])).std
                bound == FMul(FInt(outcome'.arg), std)
            IN  item.raised = None =>
                    \A k \in 1..Len(item.image) :
                        /\ FLe(FNeg(bound), item.image[k])
                        /\ FLe(item.image[k], bound)]_vars

\* ----------------------------------------------------------------------
\* C6: the transform a normalizing stage installs on a partition depends
\* only on that partition's own data: the same stage, run where the other
\* two partitions hold other data, installs the same transform on it.
\* ----------------------------------------------------------------------
\* the pipeline with the other two partitions holding the data of s
OthersHold(p, s) ==
    [p EXCEPT
        !.subsets = [o \in SubsetSet |-> p.subsets[s]],
        !.data_loaders =
            [o \in SubsetSet |-> [p.data_loaders[s] EXCEPT !.shuffle = (o = "train")]]]

C7_TransformsComposeInOrder ==
    \A s \in DOMAIN subsets :
        /\ Len(installed[s]) = Depth(subsets[s])
        /\ \A i \in Indices(subsets[s]) :
            LET split == GetItem(Root(subsets[s]), i)
                read == GetItem(subsets[s], i)
            IN  /\ read = ApplyAll(installed[s], split)
                /\ read.raised = None => read.target = split.target

\* two different transforms are stacked on a partition whose items differ
\* after each of them
C7_Witness ==
    /\ outcome.raised = None
    /\ Len(installed["train"]) = 2
    /\ installed["train"][1].kind # installed["train"][2].kind
    /\ \E i \in Indices(subsets["train"]) :
        LET x0 == GetItem(Root(subsets["train"]), i)
            x1 == GetItem(subsets["train"].dataset, i)
            x2 == GetItem(subsets["train"], i)
        IN  x2.raised = None /\ x0.image # x1.image /\ x1.image # x2.image

\* ----------------------------------------------------------------------
\* C8: the normalizing stages are re-runnable, not idempotent: each
\* successful call adds exactly one wrapper layer to every partition, its
\* transform computed from the data as already transformed, so the same
\* stage called twice leaves two stacked layers.
\* ----------------------------------------------------------------------
C8_EachCallAddsALayer ==
    [][Normalized =>
        /\ subsets' # subsets
        /\ \A s \in SubsetSet :
            /\ Depth(subsets'[s]) = Depth(subsets[s]) + 1
            /\ subsets'[s] =
                 TransformDataset(subsets[s],
                     StatsTransform(outcome'.stage, outcome'.arg, data_loaders[s]))]_vars

\* the same stage was called twice: two layers of its transform, the
\* second with other statistics than the first
C8_Witness ==
    /\ outcome.stage = "p_truncate"
    /\ outcome.raised = None
    /\ \A s \in SubsetSet :
        /\ Depth(subsets[s]) = 2
        /\ subsets[s].transform.kind = "Clamp"
        /\ subsets[s].dataset.transform.kind = "Clamp"
    /\ subsets["train"].transform # subsets["train"].dataset.transform

\* ----------------------------------------------------------------------
\* C9: a successful normalizing stage changes none of data_dir, dataset,
\* num_classes, batch_size, num_workers, keeps each previous subset
\* unmodified as the inner layer of the new wrapper, and leaves every
\* partition's length unchanged.
\* ----------------------------------------------------------------------
C9_NormalizingFrame ==
    [][Normalized =>
        /\ UNCHANGED <<data_dir, dataset, num_classes, batch_size, num_workers>>
        /\ \A s \in SubsetSet :
            /\ subsets'[s].dataset = subsets[s]
            /\ DatasetLen(subsets'[s]) = DatasetLen(subsets[s])
            /\ Root(subsets'[s]) = Root(subsets[s])]_vars

C9_Witness ==
    /\ outcome.stage = "p_min_max_scale"
    /\ outcome.raised = None
    /\ \A s \in SubsetSet : Depth(subsets[s]) = 1
    /\ DatasetLen(subsets["train"]) > 1

\* ----------------------------------------------------------------------
\* C10: for a signal of length L and segment length S the segmenting
\* dataset has length floor(L/S), and for 0 <= i < floor(L/S) get(i)
\* slices exactly the samples [i*S, (i+1)*S): S samples, on every access
\* the same, no sample in two segments.
\* ----------------------------------------------------------------------
C10_SegmentBounds ==
    dataset # NoDataset =>
        \A f \in 1..Len(dataset.datasets) :
            LET self == dataset.datasets[f]
                signal == load_signal(self.data_file).signal
                S == self.seg_length
                n == SegmentSTFTs_len(self)
            IN  /\ n * S <= Len(signal)
                /\ Len(signal) < (n + 1) * S
                /\ \A i \in 0..(n - 1) :
                    /\ SegmentSTFTs_segment(self, i)
                            = [k \in 1..S |-> signal[i * S + k]]
                    /\ SegmentSTFTs_getitem(self, i)
                            = Item([k \in 1..S |-> FInt(signal[i * S + k])], self.target)

\* a file that splits into several segments, and one with samples left over
C10_Witness ==
    /\ dataset # NoDataset
    /\ \E f \in 1..Len(dataset.datasets) :
        SegmentSTFTs_len(dataset.datasets[f]) > 1
    /\ \E f \in 1..Len(dataset.datasets) :
        LET self == dataset.datasets[f]
        IN  /\ SegmentSTFTs_len(self) >= 1
            /\ Len(load_signal(self.data_file).signal) % self.seg_length # 0

\* ----------------------------------------------------------------------
\* C11: get(index) of a segmenting dataset with an index outside
\* [0, length()) -- negative, equal to length(), or larger -- is signaled
\* as an error; it never returns an item built from a clamped, partial or
\* empty slice.
\* ----------------------------------------------------------------------
\* indices around the valid range 0 .. n-1 of a dataset of length n
OutOfRange(n) == ((-(n + 2))..(n + 2)) \ (0..(n - 1))

C11_OutOfRangeSignaled ==
    dataset # NoDataset =>
        \A f \in 1..Len(dataset.datasets) :
            LET self == dataset.datasets[f]
            IN  \A idx \in OutOfRange(SegmentSTFTs_len(self)) :
                    SegmentSTFTs_getitem(self, idx).raised # None

\* ----------------------------------------------------------------------
\* C12: p_build_dataset gives a concatenated dataset whose length is the
\* sum over the files of floor(L_f / S), the files in listing order; a
\* file with L_f < S gives a per-file dataset of length 0, adds no entry
\* and does not make p_build_dataset raise.
\* ----------------------------------------------------------------------
RECURSIVE SumFloors(_, _)
SumFloors(data_files, S) ==
    IF data_files = <<>> THEN 0
    ELSE Len(load_signal(Head(data_files)).signal) \div S
            + SumFloors(Tail(data_files), S)

C12_ConcatLength ==
    [][Calls("p_build_dataset") =>
        LET files == list_data_files(data_dir)
        IN  /\ (data_dir # None
                    /\ \A f \in 1..Len(files) : load_signal(files[f]).raised = None)
                => outcome'.raised = None
            /\ outcome'.raised = None =>
                LET S == outcome'.arg
                    built == dataset'.datasets
                IN  /\ Len(built) = Len(files)
                    /\ DatasetLen(dataset') = SumFloors(files, S)
                    /\ \A f \in 1..Len(files) :
                        /\ built[f].data_file = files[f]
                        /\ SegmentSTFTs_len(built[f])
                                = Len(load_signal(files[f]).signal) \div S
                        /\ \A i \in 0..(SegmentSTFTs_len(built[f]) - 1) :
                            GetItem(dataset', SumFloors(SubSeq(files, 1, f - 1), S) + i)
                                = SegmentSTFTs_getitem(built[f], i)]_vars

\* a dataset was built from a file shorter than a segment and files that
\* are not
C12_Witness ==
    /\ outcome.stage = "p_build_dataset"
    /\ outcome.raised = None
    /\ DatasetLen(dataset) > 1
    /\ \E f \in 1..Len(dataset.datasets) :
        /\ Len(load_signal(dataset.datasets[f].data_file).signal) < outcome.arg
        /\ SegmentSTFTs_len(dataset.datasets[f]) = 0

\* ----------------------------------------------------------------------
\* C13: compute_mean_std is batching-invariant: however a finite
\* collection of pixels is split into batches (any sizes, any order, empty
\* batches, another batching in pass 2 than in pass 1) it finds the same
\* pixel sum, pixel count and sum of squared deviations, hence the mean
\* and std of the direct computation over the whole collection.
\* ----------------------------------------------------------------------
DirectMean(pixels) == FDiv(SumPixels(pixels), FInt(Len(pixels)))
DirectStd(pixels) ==
    FSqrt(FDiv(SumSqDev(pixels, DirectMean(pixels)), FInt(Len(pixels))))

C13_BatchingInvariant ==
    stat.phase = "compute_mean_std" =>
        /\ AccSum(stat.pass1, Zero) = SumPixels(stat.pixels)
        /\ AccCount(stat.pass1, 0) = Len(stat.pixels)
        /\ AccSsd(stat.pass2, DirectMean(stat.pixels), Zero)
                = SumSqDev(stat.pixels, DirectMean(stat.pixels))
        /\ stat.result = [raised |-> None, mean |-> DirectMean(stat.pixels),
                          std |-> DirectStd(stat.pixels)]

\* batches [1,2,3] and [4,5] in pass 1, another batching in pass 2: mean 3
\* and std^2 = 2
C13_Witness ==
    /\ stat.phase = "compute_mean_std"
    /\ stat.pass1 = <<Pixels(<<1, 2, 3>>), Pixels(<<4, 5>>)>>
    /\ stat.pass2 = <<Pixels(<<5, 4>>), <<>>, Pixels(<<3>>), Pixels(<<2, 1>>)>>
            \/ stat.pass2 = <<Pixels(<<5, 4>>), Pixels(<<3>>), Pixels(<<2, 1>>), <<>>>>
    /\ stat.result.mean = FInt(3)
    /\ stat.result.std = FSqrt(FInt(2))

\* ----------------------------------------------------------------------
\* C14: compute_min_max returns in one pass exactly the minimum and the
\* maximum of the pixels of a non-empty collection, whatever the batches
\* and their order; the running minimum never increases and the running
\* maximum never decreases during the pass.
\* ----------------------------------------------------------------------
DirectMin(pixels) ==
    CHOOSE x \in Range(pixels) : \A y \in Range(pixels) : FLe(x, y)
DirectMax(pixels) ==
    CHOOSE x \in Range(pixels) : \A y \in Range(pixels) : FLe(y, x)

C14_MinMaxExact ==
    stat.phase = "compute_min_max" =>
        /\ stat.result = [raised |-> None, min |-> DirectMin(stat.pixels),
                          max |-> DirectMax(stat.pixels)]
        /\ \A k \in 1..Len(stat.pass1) :
            /\ FLe(AccMin(SubSeq(stat.pass1, 1, k), PosInf),
                   AccMin(SubSeq(stat.pass1, 1, k - 1), PosInf))
            /\ FLe(AccMax(SubSeq(stat.pass1, 1, k - 1), NegInf),
                   AccMax(SubSeq(stat.pass1, 1, k), NegInf))

\* the extremes arrive in the middle batch of three
C14_Witness ==
    /\ stat.phase = "compute_min_max"
    /\ stat.pass1 = <<Pixels(<<4>>), Pixels(<<-2>>), Pixels(<<4>>)>>
    /\ stat.result.min = FInt(-2)
    /\ stat.result.max = FInt(4)

\* ----------------------------------------------------------------------
\* C15: when a partition's loader yields no pixel (count = 0), a
\* normalizing stage reports an error: it fails for that partition and
\* installs no transform on it (none built from defaulted, infinite or
\* nan statistics).
\* ----------------------------------------------------------------------
YieldsNothing(loader) ==
    InOrder(loader).raised = None /\ AccCount(InOrder(loader).batches, 0) = 0

C15_EmptyLoaderReported ==
    [][\A stage \in NormalizingStages : \A s \in SubsetSet :
        (/\ Calls(stage)
         /\ DOMAIN data_loaders = SubsetSet
         /\ YieldsNothing(data_loaders[s]))
            => outcome'.raised # None /\ subsets'[s] = subsets[s]]_vars

\* ----------------------------------------------------------------------
\* C16: after a successful p_min_max_scale, on every non-empty partition
\* whose pixels had the minimum m and the maximum M before the stage, the
\* installed transform is x -> (x - (M+m)/2) / ((M-m)/2); it sends m to
\* -1, M to +1 and every pixel of the partition into [-1, 1], and the
\* items of the partition remain readable.
\* ----------------------------------------------------------------------
\* the pixels of all items of a dataset whose items can be read
PixelsOf(ds) == Collate(ds, Sequential(DatasetLen(ds)))
Readable(ds) == \A i \in Indices(ds) : GetItem(ds, i).raised = None
Comparable(pixels) == \A k \in 1..Len(pixels) : ~IsNaN(pixels[k])

C16_MinMaxAffine ==
    [][(Calls("p_min_max_scale") /\ outcome'.raised = None) =>
        \A s \in SubsetSet :
            (/\ DatasetLen(subsets[s]) > 0
             /\ Readable(subsets[s])
             /\ Comparable(PixelsOf(subsets[s]))) =>
                LET m == DirectMin(PixelsOf(subsets[s]))
                    M == DirectMax(PixelsOf(subsets[s]))
                    scaler == subsets'[s].transform
                IN  /\ scaler = NormalizeTransform(FDiv(FAdd(M, m), FInt(2)),
                                                   FDiv(FSub(M, m), FInt(2)))
                    /\ ApplyPixel(scaler, m) = FInt(-1)
                    /\ ApplyPixel(scaler, M) = FInt(1)
                    /\ Readable(subsets'[s])
                    /\ \A k \in 1..Len(PixelsOf(subsets'[s])) :
                        /\ FLe(FInt(-1), PixelsOf(subsets'[s])[k])
                        /\ FLe(PixelsOf(subsets'[s])[k], FInt(1))]_vars

\* ----------------------------------------------------------------------
\* Loader workers: concurrent __getitem__ calls on one dataset object,
\* each call taking its statements one at a time
\* ----------------------------------------------------------------------
Workers == {1, 2}

\* the transforms of the TransformDataset layers, innermost first
RECURSIVE Layers(_)
Layers(ds) ==
    IF ds.kind = "TransformDataset" THEN Append(Layers(ds.dataset), ds.transform)
    ELSE <<>>

\* the locals of a __getitem__ call that has not started
Idle ==
    [pc |-> "idle", idx |-> 0, signal |-> <<>>, segment |-> <<>>,
     image |-> <<>>, label |-> -1, pending |-> <<>>, overlapped |-> FALSE]

Running(frame) == frame.pc \notin {"idle", "returned"}

\* faulty variant: the segment is kept in a field of the dataset object
getitem_step_shared_segment(self, frame) ==
    CASE frame.pc = "load" ->
            [self |-> self,
             frame |-> [frame EXCEPT !.pc = "slice",
                            !.signal = load_signal(Root(self).data_file).signal]]
      [] frame.pc = "slice" ->
            [self |-> [k \in (DOMAIN self) \cup {"segment"} |->
                          IF k = "segment"
                          THEN PySlice(frame.signal,
                                       frame.idx * Root(self).seg_length,
                                       (frame.idx + 1) * Root(self).seg_length)
                          ELSE self[k]],
             frame |-> [frame EXCEPT !.pc = "stft"]]
      [] frame.pc = "stft" ->
            [self |-> self,
             frame |-> [frame EXCEPT !.pc = "transform",
                            !.image = Spectrogram(self.segment),
                            !.label = Root(self).target]]
      [] frame.pc = "transform" /\ frame.pending # <<>> ->
            [self |-> self,
             frame |-> [frame EXCEPT
                            !.image = ApplyTransform(Head(frame.pending), frame.image),
                            !.pending = Tail(frame.pending)]]
      [] OTHER -> [self |-> self, frame |-> [frame EXCEPT !.pc = "returned"]]

\* the next statement of a call: SegmentSTFTs.__getitem__ loads the signal,
\* slices the segment and builds the image; then each enclosing
\* TransformDataset.__getitem__ applies its transform; gives the dataset
\* object and the locals after the statement
getitem_step(self, frame) ==
    CASE frame.pc = "load" ->
            [self |-> self,
             frame |-> [frame EXCEPT !.pc = "slice",
                            !.signal = load_signal(Root(self).data_file).signal]]
      [] frame.pc = "slice" ->
            [self |-> self,
             frame |-> [frame EXCEPT !.pc = "stft",
                            !.segment = PySlice(frame.signal,
                                            frame.idx * Root(self).seg_length,
                                            (frame.idx + 1) * Root(self).seg_length)]]
      [] frame.pc = "stft" ->
            [self |-> self,
             frame |-> [frame EXCEPT !.pc = "transform",
                            !.image = Spectrogram(frame.segment),
                            !.label = Root(self).target]]
      [] frame.pc = "transform" /\ frame.pending # <<>> ->
            [self |-> self,
             frame |-> [frame EXCEPT
                            !.image = ApplyTransform(Head(frame.pending), frame.image),
                            !.pending = Tail(frame.pending)]]
      [] OTHER -> [self |-> self, frame |-> [frame EXCEPT !.pc = "returned"]]

\* the datasets the workers read: a file's segments, bare and under one
\* and two TransformDataset layers
Segments == SegmentSTFTs("n.mat", 1, 2, 1, 1).value
Readings ==
    {Segments,
     TransformDataset(Segments, ClampTransform(FInt(2))),
     TransformDataset(TransformDataset(Segments, ClampTransform(FInt(2))),
                      NormalizeTransform(FInt(1), FInt(2)))}

\* worker w starts dataset[idx]
Call(w) ==
    /\ ~Running(get.calls[w])
    /\ \E idx \in Indices(get.dataset) :
          get' = [get EXCEPT !.calls[w] =
                     [Idle EXCEPT !.pc = "load", !.idx = idx,
                                  !.pending = Layers(get.dataset)]]
    /\ UNCHANGED <<fields, outcome, completed, installed, reruns, wraps, stat>>

\* worker w runs the next statement of its call, while the calls of the
\* other workers are where they are
Step(w) ==
    /\ Running(get.calls[w])
    /\ \E next \in {getitem_step(get.dataset, get.calls[w])} :
          get' = [dataset |-> next.self,
                  calls |-> [v \in Workers |->
                      IF v = w THEN next.frame
                      ELSE IF Running(get.calls[v])
                           THEN [get.calls[v] EXCEPT !.overlapped = TRUE]
                      ELSE get.calls[v]]]
    /\ UNCHANGED <<fields, outcome, completed, installed, reruns, wraps, stat>>

GetInit ==
    /\ Constructed
    /\ stat = NoStat
    /\ get \in {[dataset |-> ds, calls |-> [w \in Workers |-> Idle]] : ds \in Readings}
GetNext == \E w \in Workers : Call(w) \/ Step(w)
GetSpec == GetInit /\ [][GetNext]_vars

\* ----------------------------------------------------------------------
\* C17: get(index) is reentrant: however the calls of several loader
\* workers on one dataset (segments, possibly under transform layers)
\* interleave, each call returns the (image, target) it returns when run
\* alone, and no call modifies a field of the dataset objects.
\* ----------------------------------------------------------------------
C17_Reentrant ==
    [][/\ get'.dataset = get.dataset
       /\ \A w \in DOMAIN get'.calls :
            get'.calls[w].pc = "returned" =>
                Item(get'.calls[w].image, get'.calls[w].label)
                    = GetItem(get.dataset, get'.calls[w].idx)]_vars

\* two calls for different items under two layers have returned, each
\* having run while the other was running
C17_Witness ==
    /\ Depth(get.dataset) = 2
    /\ \A w \in DOMAIN get.calls :
        get.calls[w].pc = "returned" /\ get.calls[w].overlapped
    /\ get.calls[1].idx # get.calls[2].idx
    /\ get.calls[1].image # get.calls[2].image

\* ----------------------------------------------------------------------
\* C18: after a successful p_build_dataset, num_classes is the number of
\* distinct labels read_label gives over the listed files, every file's
\* target is an integer in [0, num_classes), two files have the same
\* target exactly when their labels are equal, and every segment of a
\* file carries the file's target.
\* ----------------------------------------------------------------------
C18_LabelEncoding ==
    [][(Calls("p_build_dataset") /\ outcome'.raised = None) =>
        LET files == list_data_files(data_dir)
            built == dataset'.datasets
            S == outcome'.arg
        IN  /\ num_classes' = Cardinality({read_label(files[f]) : f \in 1..Len(files)})
            /\ \A f \in 1..Len(files) :
                /\ built[f].target \in 0..(num_classes' - 1)
                /\ \A g \in 1..Len(files) :
                    (built[f].target = built[g].target)
                        <=> (read_label(files[f]) = read_label(files[g]))
                /\ \A i \in 0..(SegmentSTFTs_len(built[f]) - 1) :
                    /\ SegmentSTFTs_getitem(built[f], i).target = built[f].target
                    /\ GetItem(dataset', SumFloors(SubSeq(files, 1, f - 1), S) + i).target
                            = built[f].target]_vars

\* a dataset built from three files with two labels: two files share a
\* target, the third has the other, and a file has several segments
C18_Witness ==
    /\ outcome.stage = "p_build_dataset"
    /\ outcome.raised = None
    /\ num_classes = 2
    /\ Len(dataset.datasets) = 3
    /\ \E f, g, h \in 1..3 :
        /\ f # g
        /\ dataset.datasets[f].target = dataset.datasets[g].target
        /\ dataset.datasets[h].target # dataset.datasets[f].target
        /\ SegmentSTFTs_len(dataset.datasets[h]) > 1
        /\ GetItem(dataset, DatasetLen(dataset) - 1).target \in {0, 1}

\* ----------------------------------------------------------------------
\* C19: in every reachable state each stored loader shuffles exactly when
\* its partition is train, both when first built by p_build_data_loaders
\* and after every rebuild by p_truncate, p_min_max_scale or p_normalize,
\* and every rebuilt loader uses the batch_size and num_workers given to
\* the latest p_build_data_loaders.
\* ----------------------------------------------------------------------
Uses(loader, args) == loader.batch_size = args[1] /\ loader.num_workers = args[2]

C19_ShuffleOnlyTrain ==
    /\ [](\A s \in DOMAIN data_loaders : data_loaders[s].shuffle <=> (s = "train"))
    /\ [][/\ (Calls("p_build_data_loaders") /\ outcome'.raised = None) =>
                \E args \in LoaderArgChoices :
                    /\ args[1] = outcome'.arg
                    /\ <<batch_size', num_workers'>> = args
                    /\ \A s \in SubsetSet : Uses(data_loaders'[s], args)
          /\ ~Calls("p_build_data_loaders") =>
                /\ <<batch_size', num_workers'>> = <<batch_size, num_workers>>
                /\ \A s \in DOMAIN data_loaders' :
                    (s \notin DOMAIN data_loaders \/ data_loaders'[s] # data_loaders[s])
                        => /\ outcome'.stage \in NormalizingStages
                           /\ Uses(data_loaders'[s], <<batch_size, num_workers>>)]_vars

\* the loaders were built with (2, 2), built again with (1, 0), and then
\* rebuilt by a normalizing stage over the wrapped partitions
C19_Witness ==
    /\ outcome.stage \in NormalizingStages
    /\ outcome.raised = None
    /\ reruns > 0
    /\ <<batch_size, num_workers>> = <<1, 0>>
    /\ \A s \in SubsetSet :
        /\ Depth(data_loaders[s].dataset) = 1
        /\ Uses(data_loaders[s], <<1, 0>>)
        /\ data_loaders[s].shuffle <=> (s = "train")

\* ----------------------------------------------------------------------
\* C20: in every reachable state in which all three loaders exist, each
\* loader iterates the current subset of its partition (data_loaders[s] is
\* built over subsets[s]) and each subset is a view of the current dataset,
\* also after p_split_dataset or p_build_dataset is run again once loaders
\* exist, so that a later normalizing stage computes its statistics over
\* the data it then wraps.
\* ----------------------------------------------------------------------
C20_LoadersIterateCurrentSubsets ==
    DOMAIN data_loaders = SubsetSet =>
        \A s \in SubsetSet :
            /\ data_loaders[s].dataset = subsets[s]
            /\ Root(subsets[s]).dataset = dataset

====
